---- MODULE Spec2Model ----
(***************************************************************************)
(* The S3 storage backend of libsql-wal (src/libsql-wal/src/storage/       *)
(* backend/s3.rs) as a state machine: the bucket, the two PUTs of store,   *)
(* the LIST-based segment lookup, meta, fetch_segment, the index codec and *)
(* restore_latest.                                                         *)
(*                                                                         *)
(* u64 values are scaled to U64Bits bits so that TLC can hold them; every  *)
(* formatted number keeps the 20 decimal digits of the source.  Strings    *)
(* that the object store compares are sequences of character codes.        *)
(***************************************************************************)
EXTENDS Integers, Sequences, FiniteSets, TLC

\* ------------------------------------------------------------------ bounds
\* Width of the scaled u64.
U64Bits == 8

U64_MAX == 2^U64Bits - 1

\* ----------------------------------------------------------- byte helpers
RECURSIVE Digits(_, _)
\* The w low decimal digits of n, most significant first, as character codes
\* ("{:0w}" of a number that fits w digits).
Digits(n, w) == IF w = 0 THEN <<>> ELSE Append(Digits(n \div 10, w - 1), 48 + (n % 10))

RECURSIVE LexLessFrom(_, _, _)
LexLessFrom(a, b, i) ==
    IF i > Len(b) THEN FALSE
    ELSE IF i > Len(a) THEN TRUE
    ELSE IF a[i] # b[i] THEN a[i] < b[i]
    ELSE LexLessFrom(a, b, i + 1)

\* Lexicographic (byte-wise) order of two strings, the order S3 lists keys in;
\* a proper prefix sorts first.
LexLess(a, b) == LexLessFrom(a, b, 1)

IsPrefix(p, s) == Len(p) <= Len(s) /\ \A i \in 1..Len(p) : p[i] = s[i]

RECURSIVE LeBytes(_, _)
\* n as w little-endian bytes.
LeBytes(n, w) == IF w = 0 THEN <<>> ELSE <<n % 256>> \o LeBytes(n \div 256, w - 1)

\* ---------------------------------------------------------------- CRC-32
\* A 32-bit word is the set of its one bits (0 = least significant).
Bits32 == 0..31

SymDiff(a, b) == (a \ b) \cup (b \ a)

ShiftR(c) == {i - 1 : i \in c \ {0}}

\* 0xEDB88320, the reflected IEEE polynomial.
CrcPoly == {31, 30, 29, 27, 26, 24, 23, 21, 20, 19, 15, 9, 8, 5}

ByteBits(b) == {i \in 0..7 : (b \div (2^i)) % 2 = 1}

CrcShift(c) == IF 0 \in c THEN SymDiff(ShiftR(c), CrcPoly) ELSE ShiftR(c)

RECURSIVE BitsValue(_, _, _)
\* The value of the n bits of word c from bit lo up.
BitsValue(c, lo, n) ==
    IF n = 0 THEN 0
    ELSE (IF lo \in c THEN 1 ELSE 0) + 2 * BitsValue(c, lo + 1, n - 1)

\* The CRC table: the word a byte leaves after its eight shifts.
CrcTable ==
    [b \in 0..255 |->
        CrcShift(CrcShift(CrcShift(CrcShift(CrcShift(CrcShift(CrcShift(CrcShift(
            ByteBits(b)))))))))]

\* crc = table[(crc ^ b) & 0xff] ^ (crc >> 8)
CrcByte(c, b) ==
    LET x == SymDiff(c, ByteBits(b))
    IN  SymDiff(CrcTable[BitsValue(x, 0, 8)], {i - 8 : i \in x \ (0..7)})

RECURSIVE CrcUpdate(_, _)
CrcUpdate(c, data) ==
    IF data = <<>> THEN c ELSE CrcUpdate(CrcByte(c, Head(data)), Tail(data))

\* crc32fast::hash(data) as its four little-endian bytes.
Crc32(data) ==
    LET c == Bits32 \ CrcUpdate(Bits32, data)
    IN  <<BitsValue(c, 0, 8), BitsValue(c, 8, 8), BitsValue(c, 16, 8), BitsValue(c, 24, 8)>>

\* ------------------------------------------------------------ segment keys
\* Digits of a formatted frame number: "{:020}".
KeyDigits == 20

\* Digits a segment id is displayed with.
IdDigits == 2

\* SegmentKey::from(&meta): the key of the segment a SegmentMeta describes.
SegmentKeyFrom(meta) ==
    [start_frame_no |-> meta.start_frame_no,
     end_frame_no   |-> meta.end_frame_no,
     segment_id     |-> meta.segment_id]

\* SegmentKey::includes
Includes(key, frame_no) ==
    key.start_frame_no <= frame_no /\ frame_no <= key.end_frame_no

\* Display of a SegmentKey: U64_MAX - end_frame_no, then U64_MAX - start_frame_no,
\* both zero-padded to 20 digits, then the segment id, separated by '-' (45).
SegmentKeyDisplay(key) ==
    Digits(U64_MAX - key.end_frame_no, KeyDigits) \o <<45>>
        \o Digits(U64_MAX - key.start_frame_no, KeyDigits) \o <<45>>
        \o Digits(key.segment_id, IdDigits)

RECURSIVE ParseU64(_)
\* str::parse::<u64>: the value of a string of decimal digits, -1 when a character is
\* no digit or the value does not fit.
ParseU64(s) ==
    IF s = <<>> THEN 0
    ELSE LET hi == ParseU64(SubSeq(s, 1, Len(s) - 1))
             d  == s[Len(s)] - 48
         IN  IF hi < 0 \/ d < 0 \/ d > 9 \/ hi * 10 + d > U64_MAX THEN -1
             ELSE hi * 10 + d

NoKey == [tag |-> "None"]

SomeKey(key) == [tag |-> "Some", key |-> key]

\* SegmentKey::validate_from_path: the SegmentKey a file name displays, None for a
\* malformed name.
ValidateFromPath(name) ==
    LET a == ParseU64(SubSeq(name, 1, KeyDigits))
        b == ParseU64(SubSeq(name, KeyDigits + 2, 2 * KeyDigits + 1))
        c == ParseU64(SubSeq(name, 2 * KeyDigits + 3, Len(name)))
    IN  IF /\ Len(name) = 2 * KeyDigits + 2 + IdDigits
           /\ name[KeyDigits + 1] = 45
           /\ name[2 * KeyDigits + 2] = 45
           /\ a >= 0 /\ b >= 0 /\ c >= 0
        THEN SomeKey([start_frame_no |-> U64_MAX - b,
                      end_frame_no   |-> U64_MAX - a,
                      segment_id     |-> c])
        ELSE NoKey

\* ------------------------------------------------------------- object keys
\* An object key is its path components and its last component's characters.
FolderKey(cluster_id, namespace) == [cluster_id |-> cluster_id, namespace |-> namespace]

FolderKeyDisplay(folder_key) ==
    <<"v2", "clusters", folder_key.cluster_id, "namespaces", folder_key.namespace>>

s3_segment_data_key(folder_key, segment_key) ==
    [path |-> FolderKeyDisplay(folder_key) \o <<"segments">>,
     name |-> SegmentKeyDisplay(segment_key)]

\* Mutant: the index key built under the data folder.
s3_segment_index_key_in_segments(folder_key, segment_key) ==
    [path |-> FolderKeyDisplay(folder_key) \o <<"segments">>,
     name |-> SegmentKeyDisplay(segment_key)]

s3_segment_index_key(folder_key, segment_key) ==
    [path |-> FolderKeyDisplay(folder_key) \o <<"indexes">>,
     name |-> SegmentKeyDisplay(segment_key)]

s3_segment_index_lookup_key_prefix(folder_key) ==
    [path |-> FolderKeyDisplay(folder_key) \o <<"indexes">>, name |-> <<>>]

\* Mutant: the lookup key formatted from frame_no, not from u64::MAX - frame_no.
s3_segment_index_lookup_key_plain(folder_key, frame_no) ==
    [path |-> FolderKeyDisplay(folder_key) \o <<"indexes">>,
     name |-> Digits(frame_no, KeyDigits)]

s3_segment_index_lookup_key(folder_key, frame_no) ==
    [path |-> FolderKeyDisplay(folder_key) \o <<"indexes">>,
     name |-> Digits(U64_MAX - frame_no, KeyDigits)]

\* --------------------------------------------------------- the object store
\* Byte order of two keys below the same folder.
KeyLess(a, b) == a.path = b.path /\ LexLess(a.name, b.name)

HasPrefix(k, prefix) == k.path = prefix.path /\ IsPrefix(prefix.name, k.name)

RECURSIVE SortKeys(_)
\* The keys of set S in ascending byte order.
SortKeys(S) ==
    IF S = {} THEN <<>>
    ELSE LET m == CHOOSE k \in S : \A o \in S \ {k} : KeyLess(k, o)
         IN  <<m>> \o SortKeys(S \ {m})

\* list_objects_v2(prefix, start_after): the keys under the prefix that sort
\* strictly after start_after, ascending.
ListObjectsV2(bkt, prefix, start_after) ==
    SortKeys({k \in DOMAIN bkt : HasPrefix(k, prefix) /\ KeyLess(start_after, k)})

\* PUT: the object at key is created or replaced.
PutObject(bkt, key, body) ==
    [k \in DOMAIN bkt \cup {key} |-> IF k = key THEN body ELSE bkt[k]]

\* ------------------------------------------------------------- index codec
\* LIBSQL_MAGIC = u64::from_be_bytes(*b"LIBSQL\0\0"), as its little-endian bytes.
LIBSQL_MAGIC == <<0, 0, 76, 81, 83, 66, 73, 76>>

\* Mutant: the len field counts the header too.
EncodeIndexLenWithHeader(segment_index) ==
    LIBSQL_MAGIC \o LeBytes(1, 2) \o LeBytes(22 + Len(segment_index), 8)
        \o Crc32(segment_index) \o segment_index

\* The index object store writes for a serialized index: SegmentIndexHeader
\* (magic, version, len, checksum; 22 bytes, no padding) followed by the payload.
EncodeIndex(segment_index) ==
    LIBSQL_MAGIC \o LeBytes(1, 2) \o LeBytes(Len(segment_index), 8)
        \o Crc32(segment_index) \o segment_index

\* fst::Map::new accepts the bytes of a serialized map; the maps of the model are
\* the byte strings its callers serialize.
IsFstMap(data) == \A i \in 1..Len(data) : data[i] \in 0..255

Err(err, msg) == [tag |-> "Err", err |-> err, msg |-> msg]

Ok == [tag |-> "Ok"]

\* S3Backend::fetch_segment_index_inner on the body of the index object: read_exact
\* of the 22 header bytes, the header check, the rest of the stream as data, the
\* checksum check, fst::Map::new.
fetch_segment_index_inner(body) ==
    IF Len(body) < 22 THEN Err("Io", "unexpected end of file")
    ELSE LET magic    == SubSeq(body, 1, 8)
             version  == SubSeq(body, 9, 10)
             len      == SubSeq(body, 11, 18)
             checksum == SubSeq(body, 19, 22)
             data     == SubSeq(body, 23, Len(body))
         IN  IF magic # LIBSQL_MAGIC /\ version # LeBytes(1, 2)
             THEN Err("InvalidIndex", "index header magic or version invalid")
             ELSE IF len[8] >= 128
             THEN Err("Panic", "capacity overflow")
             ELSE IF Crc32(data) # checksum
             THEN Err("InvalidIndex", "invalid index data checksum")
             ELSE IF ~IsFstMap(data)
             THEN Err("InvalidIndex", "invalid index bytes")
             ELSE [tag |-> "Ok", index |-> data]

\* ------------------------------------------------------------- find_segment
\* S3Backend::find_segment_inner: the first key listed after the lookup key, parsed.
find_segment_inner(bkt, folder_key, frame_no) ==
    LET lookup_key_prefix == s3_segment_index_lookup_key_prefix(folder_key)
        lookup_key        == s3_segment_index_lookup_key(folder_key, frame_no)
        contents          == ListObjectsV2(bkt, lookup_key_prefix, lookup_key)
    IN  IF contents = <<>> THEN NoKey ELSE ValidateFromPath(contents[1].name)

\* Backend::find_segment: find_segment_inner, FrameNotFound when it finds nothing.
find_segment(bkt, cluster_id, namespace, frame_no) ==
    LET found == find_segment_inner(bkt, FolderKey(cluster_id, namespace), frame_no)
    IN  IF found = NoKey THEN Err("FrameNotFound", frame_no)
        ELSE [tag |-> "Ok", key |-> found.key]

\* Mutant: max_frame_no taken from start_frame_no.
meta_start(bkt, cluster_id, namespace) ==
    LET max_segment_key == find_segment_inner(bkt, FolderKey(cluster_id, namespace), U64_MAX)
    IN  [max_frame_no |-> IF max_segment_key = NoKey THEN 0
                          ELSE max_segment_key.key.start_frame_no]

\* Backend::meta: the end_frame_no of the segment found for u64::MAX, 0 without one.
meta(bkt, cluster_id, namespace) ==
    LET max_segment_key == find_segment_inner(bkt, FolderKey(cluster_id, namespace), U64_MAX)
    IN  [max_frame_no |-> IF max_segment_key = NoKey THEN 0
                          ELSE max_segment_key.key.end_frame_no]

\* -------------------------------------------------------------------- store
\* Mutant: the first PUT of store goes to the index key.
store_index_put_first(cluster_id, meta_, segment_data, segment_index) ==
    [key  |-> s3_segment_index_key(FolderKey(cluster_id, meta_.namespace), SegmentKeyFrom(meta_)),
     body |-> EncodeIndex(segment_index)]

\* The first PUT of store: the segment data under the data key.
store_data_put(cluster_id, meta_, segment_data, segment_index) ==
    [key  |-> s3_segment_data_key(FolderKey(cluster_id, meta_.namespace), SegmentKeyFrom(meta_)),
     body |-> segment_data]

\* The second PUT of store: the framed index under the index key.
store_index_put(cluster_id, meta_, segment_data, segment_index) ==
    [key  |-> s3_segment_index_key(FolderKey(cluster_id, meta_.namespace), SegmentKeyFrom(meta_)),
     body |-> EncodeIndex(segment_index)]

\* ------------------------------------------------------------------- inputs
\* config.cluster_id
ClusterId == "123456789"

Namespaces == {"foobarbaz", "other"}

Meta(namespace, segment_id, start_frame_no, end_frame_no) ==
    [namespace |-> namespace, segment_id |-> segment_id,
     start_frame_no |-> start_frame_no, end_frame_no |-> end_frame_no]

\* The segments of tests::s3_basic, [0, 64] and [64, 128].
S1 == Meta("foobarbaz", 1, 0, 64)

S2 == Meta("foobarbaz", 2, 64, 128)

\* The SegmentMeta values store is called with: the two of the test, their
\* compaction, and a segment of another namespace that ends at u64::MAX.
Metas == {S1, S2, Meta("other", 4, 65, U64_MAX)}

\* Serialized indexes (FST map bytes) store is called with.
Indexes == {<<42>>, <<44>>}

\* Segment data files store is called with (tests::s3_basic writes bytes of 123).
DataFiles == {<<123, 123>>}

\* Frame numbers the read operations are called with.
FrameNos == {1, 63, 64, 65, 128}

Writers == {1, 2}

VARIABLES
    bucket,     \* the object store: key -> object body
    store_st,   \* per writer: where its store call stands, and what it returned
    ret,        \* the read operation that returned last, none once the bucket changed
    fetch,      \* the fetch_segment call in progress
    dest,       \* the bytes of the file at fetch_segment's dest_path
    rst,        \* the restore_latest call: its position, locals, result and file
    lst,        \* per consumer: the list_segments stream it polls
    up,         \* the streaming PUT body: the shared file and the body of each attempt
    dl          \* the fetch_segment_data_to_file call and its destination file

vars == <<bucket, store_st, ret, fetch, dest, rst, lst, up, dl>>

Idle(result) == [pc |-> "idle", result |-> result, args |-> <<>>]

NoRet == [op |-> "none"]

NoFetch == [pc |-> "idle"]

NoRestore == [pc |-> "idle"]

\* The file at dest_path before anything opened it: the path does not exist.
NoFile == <<-1>>

\* The consumers of list_segments streams.
Listers == {1, 2}

NoList == [pc |-> "idle"]

NoUpload == [pc |-> "idle"]

NoDownload == [pc |-> "idle"]

Init ==
    /\ bucket = <<>>
    /\ store_st = [w \in Writers |-> Idle("none")]
    /\ ret = NoRet
    /\ fetch = NoFetch
    /\ dest = NoFile
    /\ rst = NoRestore
    /\ lst = [l \in Listers |-> NoList]
    /\ up = NoUpload
    /\ dl = NoDownload

\* store, lines 409-418: the data PUT succeeds.
StorePutData(w, meta_, segment_data, segment_index) ==
    /\ store_st[w].pc = "idle"
    /\ LET put == store_data_put(ClusterId, meta_, segment_data, segment_index)
       IN  bucket' = PutObject(bucket, put.key, put.body)
    /\ store_st' = [store_st EXCEPT ![w] =
           [pc |-> "put_index", result |-> "none",
            args |-> <<meta_, segment_data, segment_index>>]]
    /\ ret' = NoRet
    /\ UNCHANGED <<fetch, dest, rst, lst, up, dl>>

\* store, line 418: the data PUT fails (transport error, or a read error of the
\* body); store returns the error and writes nothing.
StorePutDataErr(w) ==
    /\ store_st[w].pc = "idle"
    /\ store_st[w].result # "Err"
    /\ store_st' = [store_st EXCEPT ![w] = Idle("Err")]
    /\ UNCHANGED <<bucket, ret, fetch, dest, rst, lst, up, dl>>

\* store, lines 420-439: the index PUT succeeds and store returns Ok.
StorePutIndex(w) ==
    /\ store_st[w].pc = "put_index"
    /\ LET a   == store_st[w].args
           put == store_index_put(ClusterId, a[1], a[2], a[3])
       IN  bucket' = PutObject(bucket, put.key, put.body)
    /\ store_st' = [store_st EXCEPT ![w] = Idle("Ok")]
    /\ ret' = NoRet
    /\ UNCHANGED <<fetch, dest, rst, lst, up, dl>>

\* store, line 437: the index PUT fails; store returns the error, the data object stays.
StorePutIndexErr(w) ==
    /\ store_st[w].pc = "put_index"
    /\ store_st' = [store_st EXCEPT ![w] = Idle("Err")]
    /\ UNCHANGED <<bucket, ret, fetch, dest, rst, lst, up, dl>>

\* The store future is dropped between its two PUTs.
StoreCancel(w) ==
    /\ store_st[w].pc = "put_index"
    /\ store_st' = [store_st EXCEPT ![w] = Idle("none")]
    /\ UNCHANGED <<bucket, ret, fetch, dest, rst, lst, up, dl>>

\* Backend::find_segment
FindSegment(namespace, frame_no) ==
    /\ ret' = [op |-> "find_segment", namespace |-> namespace, frame_no |-> frame_no,
               result |-> find_segment(bucket, ClusterId, namespace, frame_no)]
    /\ ret' # ret
    /\ UNCHANGED <<bucket, store_st, fetch, dest, rst, lst, up, dl>>

\* Backend::meta
GetMeta(namespace) ==
    /\ ret' = [op |-> "meta", namespace |-> namespace,
               result |-> meta(bucket, ClusterId, namespace)]
    /\ ret' # ret
    /\ UNCHANGED <<bucket, store_st, fetch, dest, rst, lst, up, dl>>

\* ------------------------------------------------------------ fetch_segment
FetchRet(f, result) ==
    [op |-> "fetch_segment", namespace |-> f.namespace, frame_no |-> f.frame_no,
     result |-> result]

\* Mutant: the destination is opened before the lookup is examined.
FetchSegmentFindOpensFirst(namespace, frame_no) ==
    /\ fetch.pc = "idle"
    /\ LET found == find_segment_inner(bucket, FolderKey(ClusterId, namespace), frame_no)
           call  == [namespace |-> namespace, frame_no |-> frame_no]
       IN  /\ dest' = <<>>
           /\ IF found = NoKey \/ ~Includes(found.key, frame_no)
              THEN /\ ret' = FetchRet(call, Err("FrameNotFound", frame_no))
                   /\ ret' # ret
                   /\ UNCHANGED fetch
              ELSE /\ fetch' = [pc |-> "join", namespace |-> namespace,
                                frame_no |-> frame_no, segment_key |-> found.key,
                                data |-> "pending", index |-> "pending"]
                   /\ UNCHANGED ret
    /\ UNCHANGED <<bucket, store_st, rst, lst, up, dl>>

\* Backend::fetch_segment, lines 449-468: the lookup; FrameNotFound without a segment
\* that includes frame_no, else the destination is opened and both fetches start.
FetchSegmentFind(namespace, frame_no) ==
    /\ fetch.pc = "idle"
    /\ LET found == find_segment_inner(bucket, FolderKey(ClusterId, namespace), frame_no)
           call  == [namespace |-> namespace, frame_no |-> frame_no]
       IN  IF found = NoKey \/ ~Includes(found.key, frame_no)
           THEN /\ ret' = FetchRet(call, Err("FrameNotFound", frame_no))
                /\ ret' # ret
                /\ UNCHANGED <<fetch, dest>>
           ELSE /\ fetch' = [pc |-> "join", namespace |-> namespace, frame_no |-> frame_no,
                             segment_key |-> found.key, data |-> "pending",
                             index |-> "pending"]
                /\ dest' = <<>>     \* io.open of dest_path, truncating
                /\ UNCHANGED ret
    /\ UNCHANGED <<bucket, store_st, rst, lst, up, dl>>

\* Mutant: try_join! returns as soon as the index is there.
FetchJoinIndexOnly(f) ==
    IF f.index # "pending"
    THEN /\ ret' = FetchRet(f, [tag |-> "Ok", index |-> f.index])
         /\ fetch' = NoFetch
    ELSE /\ fetch' = f
         /\ UNCHANGED ret

\* try_join! returns once both futures are ready.
FetchJoin(f) ==
    IF f.data # "pending" /\ f.index # "pending"
    THEN /\ ret' = FetchRet(f, [tag |-> "Ok", index |-> f.index])
         /\ fetch' = NoFetch
    ELSE /\ fetch' = f
         /\ UNCHANGED ret

\* fetch_segment_data_inner: the data object is streamed into the destination file.
FetchSegmentData ==
    /\ fetch.pc = "join" /\ fetch.data = "pending"
    /\ LET key == s3_segment_data_key(FolderKey(ClusterId, fetch.namespace), fetch.segment_key)
       IN  /\ key \in DOMAIN bucket
           /\ dest' = bucket[key]
    /\ FetchJoin([fetch EXCEPT !.data = "done"])
    /\ UNCHANGED <<bucket, store_st, rst, lst, up, dl>>

\* fetch_segment_data_inner fails (no such object, or the transfer breaks after n
\* bytes reached the file): try_join! returns the error at once.
FetchSegmentDataErr ==
    /\ fetch.pc = "join" /\ fetch.data = "pending"
    /\ LET key == s3_segment_data_key(FolderKey(ClusterId, fetch.namespace), fetch.segment_key)
       IN  IF key \in DOMAIN bucket
           THEN \E n \in 0..(Len(bucket[key]) - 1) : dest' = SubSeq(bucket[key], 1, n)
           ELSE UNCHANGED dest
    /\ ret' = FetchRet(fetch, Err("Unhandled", "error sending s3 GET request"))
    /\ fetch' = NoFetch
    /\ UNCHANGED <<bucket, store_st, rst, lst, up, dl>>

\* fetch_segment_data_inner, line 145: the first read of the stream returns fewer
\* bytes than the header; the loop never ends nor suspends, and the task of
\* fetch_segment is stuck in it.
FetchSegmentDataSpin ==
    /\ fetch.pc = "join" /\ fetch.data = "pending"
    /\ fetch' = [fetch EXCEPT !.pc = "spin"]
    /\ UNCHANGED <<bucket, store_st, ret, dest, rst, lst, up, dl>>

\* fetch_segment_index_inner: the index object is fetched and decoded.
FetchSegmentIndex ==
    /\ fetch.pc = "join" /\ fetch.index = "pending"
    /\ LET key == s3_segment_index_key(FolderKey(ClusterId, fetch.namespace), fetch.segment_key)
           r   == fetch_segment_index_inner(bucket[key])
       IN  /\ key \in DOMAIN bucket
           /\ IF r.tag = "Ok"
              THEN FetchJoin([fetch EXCEPT !.index = r.index])
              ELSE /\ ret' = FetchRet(fetch, r)
                   /\ fetch' = NoFetch
    /\ UNCHANGED <<bucket, store_st, dest, rst, lst, up, dl>>

\* The GET of the index object fails: try_join! returns the error at once.
FetchSegmentIndexErr ==
    /\ fetch.pc = "join" /\ fetch.index = "pending"
    /\ ret' = FetchRet(fetch, Err("Unhandled", "error sending s3 GET request"))
    /\ fetch' = NoFetch
    /\ UNCHANGED <<bucket, store_st, dest, rst, lst, up, dl>>

\* store, lines 402-440, run to its successful return without interruption.
StoreOk(w, meta_, segment_data, segment_index) ==
    /\ store_st[w].pc = "idle"
    /\ LET data  == store_data_put(ClusterId, meta_, segment_data, segment_index)
           index == store_index_put(ClusterId, meta_, segment_data, segment_index)
       IN  bucket' = PutObject(PutObject(bucket, data.key, data.body), index.key, index.body)
    /\ store_st' = [store_st EXCEPT ![w] =
           [pc |-> "idle", result |-> "Ok",
            args |-> <<meta_, segment_data, segment_index>>]]
    /\ ret' = NoRet
    /\ UNCHANGED <<fetch, dest, rst, lst, up, dl>>

\* -------------------------------------------------------------- index codec
\* Bytes the serialized indexes of the codec runs are made of.
PayloadBytes == {0, 42}

\* Longest serialized index of the codec runs.
MaxIndexLen == 2

CodecIndexes == UNION {[1..n -> PayloadBytes] : n \in 0..MaxIndexLen}

\* What a corrupted byte is changed by (mod 256).
CorruptDeltas == {1, 128, 255}

\* One byte of a stored, well-formed index object of segment key is corrupted (at
\* rest or in transit).
CorruptIndexByte(namespace, key) ==
    /\ LET k == s3_segment_index_key(FolderKey(ClusterId, namespace), key)
       IN  /\ k \in DOMAIN bucket
           /\ bucket[k] = EncodeIndex(SubSeq(bucket[k], 23, Len(bucket[k])))
           /\ \E i \in 1..Len(bucket[k]), delta \in CorruptDeltas :
                  bucket' = [bucket EXCEPT ![k][i] = (@ + delta) % 256]
    /\ ret' = NoRet
    /\ UNCHANGED <<store_st, fetch, dest, rst, lst, up, dl>>

\* Backend::fetch_segment_index
FetchSegmentIndexOp(namespace, key) ==
    /\ LET k == s3_segment_index_key(FolderKey(ClusterId, namespace), key)
       IN  ret' = [op |-> "fetch_segment_index", namespace |-> namespace, key |-> key,
                   result |-> IF k \in DOMAIN bucket
                              THEN fetch_segment_index_inner(bucket[k])
                              ELSE Err("Unhandled", "error sending s3 GET request")]
    /\ ret' # ret
    /\ UNCHANGED <<bucket, store_st, fetch, dest, rst, lst, up, dl>>

\* ----------------------------------------------------------- restore_latest
\* Bytes of a page.
PageSize == 4096

\* The segment data file of frames: CompactedSegmentDataHeader, then the frames.
SegFile(start_frame_no, size_after, frames) ==
    [header |-> [start_frame_no |-> start_frame_no, frame_count |-> Len(frames),
                 size_after |-> size_after],
     frames |-> frames]

\* The i-th frame of a segment, of page page_no; its payload is tagged with the
\* segment and the frame that carry it.
PageFrame(segment_id, i, page_no) ==
    [page_no |-> page_no,
     data    |-> <<"page", page_no, "of segment", segment_id, "frame", i>>]

Segment(segment_id, start_frame_no, end_frame_no, size_after, pages) ==
    [meta |-> Meta("foobarbaz", segment_id, start_frame_no, end_frame_no),
     file |-> SegFile(start_frame_no, size_after,
                      [i \in 1..Len(pages) |-> PageFrame(segment_id, i, pages[i])])]

\* The segments restore runs over: a log whose database grows to three pages,
\* shrinks to two and grows again, a segment that starts at frame 0, and a segment
\* that carries a page twice.
RestorePool ==
    {Segment(1, 1, 2, 2, <<1, 2>>),
     Segment(2, 3, 4, 3, <<3>>),
     Segment(3, 5, 6, 2, <<1>>),
     Segment(4, 7, 8, 3, <<2, 3>>),
     Segment(5, 0, 0, 2, <<1>>),
     Segment(6, 9, 10, 3, <<2, 2>>)}

\* write_all_at_async(buf, offset) on a file kept as offset -> page payload.
WriteAt(file, offset, data) ==
    [o \in DOMAIN file \cup {offset} |-> IF o = offset THEN data ELSE file[o]]

RECURSIVE restore_frames_unseen(_, _, _)
\* Mutant: every frame is written, seen or not.
restore_frames_unseen(st, reader, n) ==
    IF n = 0 THEN st
    ELSE LET frame   == Head(reader)
             page_no == frame.page_no
         IN  restore_frames_unseen(
                 [st EXCEPT !.seen   = st.seen \cup {page_no},
                            !.file   = WriteAt(st.file, (page_no - 1) * PageSize, frame.data),
                            !.writes = Append(st.writes, page_no)],
                 Tail(reader), n - 1)

RECURSIVE restore_frames(_, _, _)
\* restore_latest, lines 262-273: the next n frames of the reader; a page not seen
\* yet is recorded and written at (page_no - 1) * 4096.
restore_frames(st, reader, n) ==
    IF n = 0 THEN st
    ELSE LET frame   == Head(reader)
             page_no == frame.page_no
         IN  restore_frames(
                 IF page_no \notin st.seen
                 THEN [st EXCEPT !.seen   = st.seen \cup {page_no},
                                 !.file   = WriteAt(st.file, (page_no - 1) * PageSize,
                                                    frame.data),
                                 !.writes = Append(st.writes, page_no)]
                 ELSE st,
                 Tail(reader), n - 1)

\* restore_latest is over with result; gets are the keys it sent a GET request
\* for, writes the pages of its write_all_at_async calls.
RestoreDone(st, result) ==
    [pc |-> "done", result |-> result, namespace |-> st.namespace, seen |-> st.seen,
     file |-> st.file, writes |-> st.writes, gets |-> st.gets]

\* Mutant: without a newest segment the restore fails.
nothing_to_restore_err(st) == RestoreDone(st, Err("FrameNotFound", U64_MAX))

\* restore_latest, lines 244-250: find_segment_inner(u64::MAX) found nothing;
\* "nothing to restore" is logged and Ok(()) returned.
nothing_to_restore(st) == RestoreDone(st, Ok)

\* Mutant: a walk that finds no older segment returns Ok.
missing_segment_ok(st) == RestoreDone(st, Ok)

\* restore_latest, lines 281-286: no segment is found for start_frame_no - 1 while
\* pages are missing; todo! panics.
missing_segment(st) ==
    RestoreDone(st, Err("Panic", "not yet implemented: there should be a segment!"))

\* fetch_segment_data_reader and the read_exact of the header, lines 252-258 and
\* 287-291: the state of the walk at the head of the segment of key.
RestoreOpen(st, namespace, key, db_size) ==
    LET k    == s3_segment_data_key(FolderKey(ClusterId, namespace), key)
        body == bucket[k]
        gets == st.gets \cup {k}
    IN  IF k \notin DOMAIN bucket
        THEN RestoreDone([st EXCEPT !.gets = gets],
                         Err("Unhandled", "error sending s3 GET request"))
        ELSE [pc |-> "frames", result |-> [tag |-> "None"], namespace |-> namespace,
              key |-> key, header |-> body.header, reader |-> body.frames,
              db_size |-> IF db_size < 0 THEN body.header.size_after ELSE db_size,
              seen |-> st.seen, file |-> st.file, writes |-> st.writes,
              gets |-> gets]

\* restore_latest, lines 240-258: the lookup of the newest segment; Ok without one.
RestoreLatestBegin(namespace) ==
    /\ rst.pc = "idle"
    /\ LET latest_key == find_segment_inner(bucket, FolderKey(ClusterId, namespace), U64_MAX)
           st         == [namespace |-> namespace, seen |-> {}, file |-> <<>>,
                          writes |-> <<>>, gets |-> {}]
       IN  rst' = IF latest_key = NoKey THEN nothing_to_restore(st)
                  ELSE RestoreOpen(st, namespace, latest_key.key, -1)
    /\ UNCHANGED <<bucket, store_st, ret, fetch, dest, lst, up, dl>>

\* restore_latest, lines 261-292: one turn of the loop.  The frames of the current
\* segment are replayed; the restore is over when |seen| = db_size; otherwise the
\* segment found for start_frame_no - 1 is opened.  start_frame_no - 1 of a segment
\* that starts at 0 panics in a build with overflow checks and wraps to u64::MAX in
\* one without.
RestoreLatestSegment(overflow_checks) ==
    /\ rst.pc = "frames"
    /\ LET n  == rst.header.frame_count
           st == restore_frames(rst, rst.reader, n)
           next_frame_no == (rst.header.start_frame_no - 1) % (U64_MAX + 1)
           key == find_segment_inner(bucket, FolderKey(ClusterId, rst.namespace), next_frame_no)
       IN  rst' =
             IF Len(rst.reader) < n
             THEN RestoreDone(restore_frames(rst, rst.reader, Len(rst.reader)),
                              Err("Io", "unexpected end of file"))
             ELSE IF Cardinality(st.seen) = rst.db_size
             THEN RestoreDone(st, Ok)
             ELSE IF rst.header.start_frame_no = 0 /\ overflow_checks
             THEN RestoreDone(st, Err("Panic", "attempt to subtract with overflow"))
             ELSE IF key = NoKey
             THEN missing_segment(st)
             ELSE RestoreOpen(st, rst.namespace, key.key, rst.db_size)
    /\ UNCHANGED <<bucket, store_st, ret, fetch, dest, lst, up, dl>>

\* ------------------------------------------------------------ list_segments
\* Most keys the object store puts in one page of a listing.
MaxKeys == 3

\* Names of objects below indexes/ that display no SegmentKey.
ForeignNames == {Digits(100, KeyDigits), <<103>>}

\* The values of until the streams are created with.
Untils == {0, 128}

\* Something other than store puts an object below the indexes folder.
PutForeign(namespace, name) ==
    /\ \A l \in Listers : lst[l].pc = "idle"
    /\ LET k == [path |-> FolderKeyDisplay(FolderKey(ClusterId, namespace)) \o <<"indexes">>,
                 name |-> name]
       IN  /\ k \notin DOMAIN bucket
           /\ bucket' = PutObject(bucket, k, <<>>)
    /\ ret' = NoRet
    /\ UNCHANGED <<store_st, fetch, dest, rst, lst, up, dl>>

\* A segment is stored while no stream is being polled.
StoreListed(m) ==
    /\ \A l \in Listers : lst[l].pc = "idle"
    /\ StoreOk(1, m, <<123, 123>>, <<42>>)

\* The SegmentInfo of a listed entry (created_at, the entry's last_modified, is
\* left out: objects carry no time here).
SegmentInfo(key, size) == [key |-> key, size |-> size]

RECURSIVE list_entries(_, _)
\* list_segments_inner, lines 334-346: the items the entries of a page yield; an
\* entry whose key does not validate is skipped.
list_entries(bkt, contents) ==
    IF contents = <<>> THEN <<>>
    ELSE LET entry == Head(contents)
             key   == ValidateFromPath(entry.name)
         IN  (IF key = NoKey THEN <<>>
              ELSE <<SegmentInfo(key.key, Len(bkt[entry]))>>)
                 \o list_entries(bkt, Tail(contents))

\* Mutant: every request lists from the start of the prefix.
list_segments_page_restart(bkt, st, n) ==
    LET prefix  == s3_segment_index_lookup_key_prefix(FolderKey(ClusterId, st.namespace))
        objects == ListObjectsV2(bkt, prefix, prefix)
        page    == SubSeq(objects, 1, IF n < Len(objects) THEN n ELSE Len(objects))
    IN  [st EXCEPT !.items = @ \o list_entries(bkt, page),
                   !.pages = @ + 1,
                   !.continuation_token = IF n < Len(objects) THEN page[Len(page)] ELSE @,
                   !.pc = IF n < Len(objects) THEN "listing" ELSE "done"]

\* Mutant: entries whose end_frame_no exceeds until are left out.
list_segments_page_until(bkt, st, n) ==
    LET prefix  == s3_segment_index_lookup_key_prefix(FolderKey(ClusterId, st.namespace))
        objects == ListObjectsV2(bkt, prefix, st.continuation_token)
        page    == SubSeq(objects, 1, IF n < Len(objects) THEN n ELSE Len(objects))
        infos   == list_entries(bkt, page)
        kept    == SelectSeq(infos, LAMBDA i : i.key.end_frame_no <= st.until)
    IN  [st EXCEPT !.items = @ \o kept,
                   !.pages = @ + 1,
                   !.continuation_token = IF n < Len(objects) THEN page[Len(page)] ELSE @,
                   !.pc = IF n < Len(objects) THEN "listing" ELSE "done"]

\* list_segments_inner, lines 323-353: one turn of the loop.  The request carries the
\* continuation token; the store answers with the next n keys below the prefix,
\* truncated when more follow; the entries are yielded; a truncated page leaves its
\* token for the next turn, any other ends the stream.
list_segments_page(bkt, st, n) ==
    LET prefix  == s3_segment_index_lookup_key_prefix(FolderKey(ClusterId, st.namespace))
        objects == ListObjectsV2(bkt, prefix, st.continuation_token)
        page    == SubSeq(objects, 1, IF n < Len(objects) THEN n ELSE Len(objects))
    IN  [st EXCEPT !.items = @ \o list_entries(bkt, page),
                   !.pages = @ + 1,
                   !.continuation_token = IF n < Len(objects) THEN page[Len(page)] ELSE @,
                   !.pc = IF n < Len(objects) THEN "listing" ELSE "done"]

\* Backend::list_segments: the stream is created; nothing is requested before it is
\* polled.
ListSegmentsBegin(l, namespace, until) ==
    /\ lst[l].pc = "idle"
    /\ lst' = [lst EXCEPT ![l] =
           [pc |-> "listing", namespace |-> namespace, until |-> until,
            continuation_token |->
                s3_segment_index_lookup_key_prefix(FolderKey(ClusterId, namespace)),
            items |-> <<>>, pages |-> 0]]
    /\ UNCHANGED <<bucket, store_st, ret, fetch, dest, rst, up, dl>>

\* The stream of consumer l is polled through one page of the listing.
ListSegmentsPage(l) ==
    /\ lst[l].pc = "listing"
    /\ \E n \in 1..MaxKeys : lst' = [lst EXCEPT ![l] = list_segments_page(bucket, @, n)]
    /\ UNCHANGED <<bucket, store_st, ret, fetch, dest, rst, up, dl>>

\* The LIST request fails: the stream yields the error and ends.
ListSegmentsErr(l) ==
    /\ lst[l].pc = "listing"
    /\ lst' = [lst EXCEPT ![l].pc = "err"]
    /\ UNCHANGED <<bucket, store_st, ret, fetch, dest, rst, up, dl>>

\* ----------------------------------------------------------- FileStreamBody
\* FileStreamBody::chunk_size
chunk_size == 4096

\* Lengths of the file the body streams: empty, below, at and above one chunk, and
\* the 8092 bytes of tests::s3_basic.
FileLens == {0, 1, 4096, 4097, 8092}

\* Bytes a read that is cut short returns.
ShortRead == 3000

\* Bodies made for one upload: the first attempt and its retries.
MaxAttempts == 2

\* FileStreamBody::new_inner: a body over the shared file.
new_inner ==
    [state |-> "Init", current_offset |-> 0, frames |-> <<>>, errors |-> 0, reads |-> 0,
     polled |-> "none"]

\* read_at_async(buf, current_offset) into a buffer of chunk_size bytes on a file of
\* file_len bytes: the numbers of bytes a successful read may return.
ReadAt(file_len, current_offset) ==
    IF current_offset >= file_len THEN {0}
    ELSE LET full == IF file_len - current_offset < chunk_size
                     THEN file_len - current_offset ELSE chunk_size
         IN  {full} \cup (IF ShortRead < full THEN {ShortRead} ELSE {})

\* Mutant: a data frame does not advance current_offset.
poll_frame_same_offset(body, ready, res) ==
    LET b == IF body.state = "Init"
             THEN [body EXCEPT !.state = "WaitingChunk", !.reads = @ + 1]
             ELSE body
    IN  IF b.state = "Done" THEN [b EXCEPT !.polled = "eos"]
        ELSE IF ~ready THEN [b EXCEPT !.polled = "pending"]
        ELSE IF res < 0
        THEN [b EXCEPT !.state = "Done", !.errors = @ + 1, !.polled = "err"]
        ELSE IF res = 0 \/ Len(b.frames) >= 3
        THEN [b EXCEPT !.state = "Done", !.polled = "eos"]
        ELSE [b EXCEPT !.state = "Init",
                       !.frames = Append(@, [offset |-> b.current_offset, len |-> res]),
                       !.polled = "data"]

\* Mutant: a poll of a body that is Done starts over.
poll_frame_done_restarts(body, ready, res) ==
    LET b == IF body.state \in {"Init", "Done"} /\ body.reads < 4
             THEN [body EXCEPT !.state = "WaitingChunk", !.reads = @ + 1]
             ELSE body
    IN  IF b.state = "Done" THEN [b EXCEPT !.polled = "eos"]
        ELSE IF ~ready THEN [b EXCEPT !.polled = "pending"]
        ELSE IF res < 0
        THEN [b EXCEPT !.state = "Done", !.errors = @ + 1, !.polled = "err"]
        ELSE IF res = 0
        THEN [b EXCEPT !.state = "Done", !.polled = "eos"]
        ELSE [b EXCEPT !.state = "Init",
                       !.current_offset = @ + res,
                       !.frames = Append(@, [offset |-> b.current_offset, len |-> res]),
                       !.polled = "data"]

\* FileStreamBody::poll_frame, lines 626-665.  In Init the read at current_offset is
\* set up and the body waits for it; the read is pending (ready = FALSE), fails
\* (res < 0) or returns res bytes: none ends the stream, any other number is a data
\* frame and advances current_offset.  A data frame is kept as the range of the file
\* it holds.
poll_frame(body, ready, res) ==
    LET b == IF body.state = "Init"
             THEN [body EXCEPT !.state = "WaitingChunk", !.reads = @ + 1]
             ELSE body
    IN  IF b.state = "Done" THEN [b EXCEPT !.polled = "eos"]
        ELSE IF ~ready THEN [b EXCEPT !.polled = "pending"]
        ELSE IF res < 0
        THEN [b EXCEPT !.state = "Done", !.errors = @ + 1, !.polled = "err"]
        ELSE IF res = 0
        THEN [b EXCEPT !.state = "Done", !.polled = "eos"]
        ELSE [b EXCEPT !.state = "Init",
                       !.current_offset = @ + res,
                       !.frames = Append(@, [offset |-> b.current_offset, len |-> res]),
                       !.polled = "data"]

\* Mutant: the body of a retry continues where the first attempt stands.
retry_body_resumes(bodies) ==
    IF bodies = <<>> THEN new_inner
    ELSE [new_inner EXCEPT !.current_offset = bodies[1].current_offset]

\* The closure of SdkBody::retryable, lines 610-613: the body of an attempt.
retry_body(bodies) == new_inner

\* FileStreamBody::new(file).into_byte_stream(): the retryable body of an upload of
\* a file of file_len bytes, with the body of its first attempt.
IntoByteStream(file_len) ==
    /\ up.pc = "idle"
    /\ up' = [pc |-> "streaming", file_len |-> file_len, bodies |-> <<retry_body(<<>>)>>]
    /\ UNCHANGED <<bucket, store_st, ret, fetch, dest, rst, lst, dl>>

\* The transport retries the request: the closure makes the body of the attempt.
RetryAttempt ==
    /\ up.pc = "streaming"
    /\ Len(up.bodies) < MaxAttempts
    /\ up' = [up EXCEPT !.bodies = Append(@, retry_body(@))]
    /\ UNCHANGED <<bucket, store_st, ret, fetch, dest, rst, lst, dl>>

\* The body of attempt a is polled.
PollFrame(a) ==
    /\ up.pc = "streaming"
    /\ a \in 1..Len(up.bodies)
    /\ \E ready \in BOOLEAN,
          res \in {-1} \cup ReadAt(up.file_len, up.bodies[a].current_offset) :
           up' = [up EXCEPT !.bodies[a] = poll_frame(@, ready, res)]
    /\ UNCHANGED <<bucket, store_st, ret, fetch, dest, rst, lst, dl>>

\* ----------------------------------------------- fetch_segment_data_to_file
\* size_of::<CompactedSegmentDataHeader>(), in bytes of the scaled data files.
HeaderSize == 2

\* Capacity of the BufReader of fetch_segment_data_inner.
BufCapacity == 8196

\* The data files stored for the download: a header alone, a header with one and
\* with two more bytes, and two objects shorter than a header.
DownloadFiles == {<<7, 8>>, <<7, 8, 9>>, <<7, 8, 9, 10>>, <<7>>, <<>>}

\* A data file is stored while no download runs.
StoreDownloaded(m, segment_data) ==
    /\ dl.pc = "idle"
    /\ StoreOk(1, m, segment_data, <<42>>)

\* BufReader::fill_buf: a buffer that holds bytes is returned as it is; an empty one
\* is filled by one read of the stream, which returns the n bytes at hand.
fill_buf(buf, stream, n) ==
    IF buf # <<>> THEN [buf |-> buf, stream |-> stream]
    ELSE [buf |-> SubSeq(stream, 1, n), stream |-> SubSeq(stream, n + 1, Len(stream))]

\* Backend::fetch_segment_data_to_file, lines 537-552, and fetch_segment_data_inner,
\* lines 141-144: the GET of the data object of key; file is empty.
FetchSegmentDataToFile(namespace, key) ==
    /\ dl.pc = "idle"
    /\ LET k == s3_segment_data_key(FolderKey(ClusterId, namespace), key)
       IN  dl' = IF k \in DOMAIN bucket
                 THEN [pc |-> "fill", namespace |-> namespace, key |-> key,
                       stream |-> bucket[k], buf |-> <<>>, file |-> <<>>,
                       result |-> [tag |-> "None"]]
                 ELSE [pc |-> "done", namespace |-> namespace, key |-> key,
                       stream |-> <<>>, buf |-> <<>>, file |-> <<>>,
                       result |-> Err("Unhandled", "error sending s3 GET request")]
    /\ UNCHANGED <<bucket, store_st, ret, fetch, dest, rst, lst, up>>

\* fetch_segment_data_inner, lines 145-146: one turn of the while loop.  The read
\* of the stream returns the n bytes of its current chunk (none at its end); the
\* loop goes on while the buffer is shorter than the header, then the header is
\* read from the buffer without consuming it.
FetchDataFillBuf ==
    /\ dl.pc = "fill"
    /\ \E n \in 0..Len(dl.stream) :
           /\ n = 0 => dl.stream = <<>>
           /\ n <= BufCapacity
           /\ LET r == fill_buf(dl.buf, dl.stream, n)
              IN  dl' = [dl EXCEPT !.buf = r.buf, !.stream = r.stream,
                                   !.pc = IF Len(r.buf) < HeaderSize THEN "fill" ELSE "copy",
                                   !.result = IF Len(r.buf) < HeaderSize THEN @
                                              ELSE [tag |-> "Ok",
                                                    header |-> SubSeq(r.buf, 1, HeaderSize)]]
    /\ UNCHANGED <<bucket, store_st, ret, fetch, dest, rst, lst, up>>

\* The read of the stream fails while the buffer is filled.
FetchDataFillErr ==
    /\ dl.pc = "fill"
    /\ dl.buf = <<>>
    /\ dl' = [dl EXCEPT !.pc = "done", !.result = Err("Io", "stream error")]
    /\ UNCHANGED <<bucket, store_st, ret, fetch, dest, rst, lst, up>>

\* fetch_segment_data_inner, lines 148-150: copy_to_file writes what the reader
\* holds, buffer first, to the file from offset 0; the header is returned.
FetchDataCopy ==
    /\ dl.pc = "copy"
    /\ dl' = [dl EXCEPT !.pc = "done", !.file = dl.buf \o dl.stream,
                        !.buf = <<>>, !.stream = <<>>]
    /\ UNCHANGED <<bucket, store_st, ret, fetch, dest, rst, lst, up>>

\* copy_to_file fails after n bytes reached the file.
FetchDataCopyErr ==
    /\ dl.pc = "copy"
    /\ \E n \in 0..(Len(dl.buf \o dl.stream) - 1) :
           dl' = [dl EXCEPT !.pc = "done", !.file = SubSeq(dl.buf \o dl.stream, 1, n),
                            !.buf = <<>>, !.stream = <<>>,
                            !.result = Err("Io", "copy error")]
    /\ UNCHANGED <<bucket, store_st, ret, fetch, dest, rst, lst, up>>

\* ----------------------------------------------------------- specifications
Store(w, metas) ==
    \/ \E m \in metas, d \in DataFiles, i \in Indexes : StorePutData(w, m, d, i)
    \/ StorePutDataErr(w)
    \/ StorePutIndex(w)
    \/ StorePutIndexErr(w)
    \/ StoreCancel(w)

\* Two writers storing concurrently, meta and the lookup of the newest segment.
Next ==
    \/ \E w \in Writers : Store(w, Metas)
    \/ \E n \in Namespaces : GetMeta(n)
    \/ \E n \in Namespaces : FindSegment(n, U64_MAX)

Spec == Init /\ [][Next]_vars

\* One writer storing the segments of tests::s3_basic, find_segment and
\* fetch_segment in their namespace.
NextRead ==
    \/ Store(1, {S1, S2})
    \/ \E f \in FrameNos : FindSegment(S1.namespace, f)
    \/ \E f \in FrameNos : FetchSegmentFind(S1.namespace, f)
    \/ FetchSegmentData
    \/ FetchSegmentDataErr
    \/ FetchSegmentDataSpin
    \/ FetchSegmentIndex
    \/ FetchSegmentIndexErr

SpecRead == Init /\ [][NextRead]_vars

\* One segment stored with any serialized index, one byte of its index object
\* corrupted, and fetch_segment_index.
NextCodec ==
    \/ \E d \in DataFiles, i \in CodecIndexes : StoreOk(1, S1, d, i)
    \/ CorruptIndexByte(S1.namespace, SegmentKeyFrom(S1))
    \/ FetchSegmentIndexOp(S1.namespace, SegmentKeyFrom(S1))

SpecCodec == Init /\ [][NextCodec]_vars

\* A segment of the pool is stored before restore_latest is called.
StoreSegment(e) ==
    /\ rst.pc = "idle"
    /\ StoreOk(1, e.meta, e.file, <<42>>)

\* Segments of the pool are stored, then restore_latest runs over them.
NextRestore ==
    \/ \E e \in RestorePool : StoreSegment(e)
    \/ \E namespace \in {"foobarbaz", "other"} : RestoreLatestBegin(namespace)
    \/ \E overflow_checks \in BOOLEAN : RestoreLatestSegment(overflow_checks)

SpecRestore == Init /\ [][NextRestore]_vars

\* Segments and foreign objects are put, then two consumers each poll a
\* list_segments stream of the namespace to its end.
NextList ==
    \/ \E m \in Metas : StoreListed(m)
    \/ \E name \in ForeignNames : PutForeign("foobarbaz", name)
    \/ \E l \in Listers, until \in Untils : ListSegmentsBegin(l, "foobarbaz", until)
    \/ \E l \in Listers : ListSegmentsPage(l)
    \/ \E l \in Listers : ListSegmentsErr(l)

SpecList == Init /\ [][NextList]_vars

\* The streaming PUT body of one upload, its attempts polled in any order.
NextBody ==
    \/ \E file_len \in FileLens : IntoByteStream(file_len)
    \/ RetryAttempt
    \/ \E a \in 1..MaxAttempts : PollFrame(a)

SpecBody == Init /\ [][NextBody]_vars

\* Data files are stored, then one is downloaded to an empty file.
NextData ==
    \/ \E m \in {S1, S2}, d \in DownloadFiles : StoreDownloaded(m, d)
    \/ \E m \in {S1, S2} : FetchSegmentDataToFile(m.namespace, SegmentKeyFrom(m))
    \/ FetchDataFillBuf
    \/ FetchDataFillErr
    \/ FetchDataCopy
    \/ FetchDataCopyErr

SpecData == Init /\ [][NextData]_vars

\* ------------------------------------------------------------------- claims
DataKeyOf(m) ==
    [path |-> <<"v2", "clusters", ClusterId, "namespaces", m.namespace, "segments">>,
     name |-> SegmentKeyDisplay(SegmentKeyFrom(m))]

IndexKeyOf(m) ==
    [path |-> <<"v2", "clusters", ClusterId, "namespaces", m.namespace, "indexes">>,
     name |-> SegmentKeyDisplay(SegmentKeyFrom(m))]

\* The segment of m is stored: its index object exists.
IndexStored(m) == IndexKeyOf(m) \in DOMAIN bucket

\* The serialized index of the stored segment m (the bytes after the header).
StoredIndex(m) == SubSeq(bucket[IndexKeyOf(m)], 23, Len(bucket[IndexKeyOf(m)]))

Returned(op, frame_no) == ret.op = op /\ ret.frame_no = frame_no

TransportErr(result) == result.tag = "Err" /\ result.err = "Unhandled"

OkIndex(m) == [tag |-> "Ok", index |-> StoredIndex(m)]

OkKey(m) == [tag |-> "Ok", key |-> SegmentKeyFrom(m)]

\* C1: with S1 = [0, 64] and S2 = [64, 128] both stored, find_segment(63) returns S1
\* and find_segment(64) returns S2; fetch_segment returns S1's index for frames 1 and
\* 63 and S2's index for frames 64 and 65.
C1_OverlapResolution ==
    (IndexStored(S1) /\ IndexStored(S2)) =>
        /\ Returned("find_segment", 63) => ret.result = OkKey(S1)
        /\ Returned("find_segment", 64) => ret.result = OkKey(S2)
        /\ (Returned("fetch_segment", 1) \/ Returned("fetch_segment", 63))
               /\ ~TransportErr(ret.result) => ret.result = OkIndex(S1)
        /\ (Returned("fetch_segment", 64) \/ Returned("fetch_segment", 65))
               /\ ~TransportErr(ret.result) => ret.result = OkIndex(S2)

\* C2: once a segment is stored, fetch_segment of any frame of its range succeeds and
\* returns the index stored for a segment that includes the frame.
C2_FetchAfterStore ==
    (ret.op = "fetch_segment" /\ ~TransportErr(ret.result)) =>
        LET covering == {m \in {S1, S2} : /\ IndexStored(m)
                                          /\ Includes(SegmentKeyFrom(m), ret.frame_no)}
        IN  covering # {} => \E m \in covering : ret.result = OkIndex(m)

\* C3: find_segment(namespace, u64::MAX) returns a stored segment of the namespace
\* with the largest end_frame_no, and the lookup key of u64::MAX sorts strictly
\* before every index key.
C3_NewestSegment ==
    /\ \A k \in DOMAIN bucket, n \in Namespaces :
           k.path = <<"v2", "clusters", ClusterId, "namespaces", n, "indexes">>
               => LexLess(Digits(0, KeyDigits), k.name)
    /\ Returned("find_segment", U64_MAX) =>
           LET stored == {m \in Metas : m.namespace = ret.namespace /\ IndexStored(m)}
           IN  stored # {} =>
                   /\ \E m \in stored : ret.result = OkKey(m)
                   /\ \A m \in stored : m.end_frame_no <= ret.result.key.end_frame_no

C3_Witness ==
    /\ IndexStored(S1) /\ IndexStored(S2)
    /\ Returned("find_segment", U64_MAX)
    /\ ret.result = OkKey(S2)

\* C4: meta(namespace).max_frame_no is the largest end_frame_no of the segments
\* whose index object is stored in the namespace, and 0 when there is none.
C4_MaxFrameNo ==
    ret.op = "meta" =>
        LET stored == {m \in Metas : m.namespace = ret.namespace /\ IndexStored(m)}
        IN  /\ stored = {} => ret.result.max_frame_no = 0
            /\ stored # {} =>
                   /\ \E m \in stored : ret.result.max_frame_no = m.end_frame_no
                   /\ \A m \in stored : ret.result.max_frame_no >= m.end_frame_no

C4_Witness ==
    /\ IndexStored(S1) /\ IndexStored(S2)
    /\ ret.op = "meta" /\ ret.namespace = S1.namespace
    /\ ret.result.max_frame_no = 128

\* C6: whenever an index object exists under a segment key, the data object under
\* the same segment key exists.
C6_IndexImpliesData ==
    \A k \in DOMAIN bucket :
        k.path[6] = "indexes" => [k EXCEPT !.path[6] = "segments"] \in DOMAIN bucket

\* A store failed or was dropped after its data PUT while another segment is stored.
C6_Witness ==
    /\ \E w \in Writers : store_st[w].result = "Err"
    /\ \E m \in Metas : DataKeyOf(m) \in DOMAIN bucket /\ ~IndexStored(m)
    /\ \E m \in Metas : IndexStored(m)

\* C7: a store that returns success leaves one data object at
\* {folder}/segments/{key} and one index object at {folder}/indexes/{key} for the
\* key of its meta, and each of its PUTs creates or overwrites that object alone.
C7_TwoObjects ==
    [][\A w \in Writers :
        /\ (store_st[w].pc = "idle" /\ store_st'[w].pc = "put_index") =>
               LET a == store_st'[w].args
               IN  /\ DOMAIN bucket' = DOMAIN bucket \cup {DataKeyOf(a[1])}
                   /\ bucket'[DataKeyOf(a[1])] = a[2]
                   /\ \A k \in DOMAIN bucket \ {DataKeyOf(a[1])} : bucket'[k] = bucket[k]
        /\ (store_st[w].pc = "put_index" /\ store_st'[w].result = "Ok") =>
               LET a == store_st[w].args
               IN  /\ DOMAIN bucket' = DOMAIN bucket \cup {IndexKeyOf(a[1])}
                   /\ DataKeyOf(a[1]) \in DOMAIN bucket'
                   /\ bucket'[IndexKeyOf(a[1])] = EncodeIndex(a[3])
                   /\ \A k \in DOMAIN bucket \ {IndexKeyOf(a[1])} : bucket'[k] = bucket[k]
      ]_vars

\* A store returned success and the bucket holds its two objects and nothing else.
C7_Witness ==
    /\ \E w \in Writers : store_st[w].result = "Ok"
    /\ \E m \in Metas : DOMAIN bucket = {DataKeyOf(m), IndexKeyOf(m)}

\* The layout of the index object of serialized index p: magic, version 1, the
\* length of p, the CRC-32 of p, p.
IsEncodingOf(o, p) ==
    /\ Len(o) = 22 + Len(p)
    /\ SubSeq(o, 1, 8) = LIBSQL_MAGIC
    /\ SubSeq(o, 9, 10) = <<1, 0>>
    /\ SubSeq(o, 11, 18) = <<Len(p), 0, 0, 0, 0, 0, 0, 0>>
    /\ SubSeq(o, 19, 22) = Crc32(p)
    /\ SubSeq(o, 23, Len(o)) = p

\* C8: the index object store writes for p has magic LIBSQL_MAGIC, version 1,
\* length |p| and checksum CRC32(p) followed by p, and fetch_segment_index on that
\* object returns the map of exactly the bytes p.
C8_RoundTrip ==
    [][/\ (store_st'[1] # store_st[1] /\ store_st'[1].result = "Ok") =>
              IsEncodingOf(bucket'[IndexKeyOf(S1)], store_st'[1].args[3])
       /\ (ret'.op = "fetch_segment_index" /\ store_st'[1].result = "Ok"
               /\ IsEncodingOf(bucket'[IndexKeyOf(S1)], store_st'[1].args[3])) =>
              ret'.result = [tag |-> "Ok", index |-> store_st'[1].args[3]]
      ]_vars

C8_Witness ==
    /\ ret.op = "fetch_segment_index"
    /\ ret.result = [tag |-> "Ok", index |-> <<42, 0>>]
    /\ IsEncodingOf(bucket[IndexKeyOf(S1)], <<42, 0>>)

InvalidIndex(result) == result.tag = "Err" /\ result.err = "InvalidIndex"

\* C9: decoding an index object whose header has magic # LIBSQL_MAGIC or
\* version # 1 fails with InvalidIndex.
C9_MagicOrVersion ==
    (ret.op = "fetch_segment_index" /\ IndexStored(S1)) =>
        LET o == bucket[IndexKeyOf(S1)]
        IN  (SubSeq(o, 1, 8) # LIBSQL_MAGIC \/ SubSeq(o, 9, 10) # <<1, 0>>)
                => InvalidIndex(ret.result)

\* C10: decoding an index object of which one byte was corrupted, in the header or
\* in the payload, fails with InvalidIndex; with "invalid index data checksum" when
\* the byte is a payload byte.
C10_SingleByteCorruption ==
    (ret.op = "fetch_segment_index" /\ store_st[1].result = "Ok") =>
        LET o == bucket[IndexKeyOf(S1)]
            p == store_st[1].args[3]
        IN  ~IsEncodingOf(o, p) =>
                /\ InvalidIndex(ret.result)
                /\ SubSeq(o, 1, 22) = SubSeq(EncodeIndex(p), 1, 22)
                       => ret.result.msg = "invalid index data checksum"

\* The segments of the pool that are stored.
Restorable == {e \in RestorePool : IndexStored(e.meta)}

PagesOf(e) == {e.file.frames[i].page_no : i \in 1..Len(e.file.frames)}

\* The stored segment with the largest end_frame_no among those of set S.
Newest(S) == CHOOSE e \in S : \A o \in S : o.meta.end_frame_no <= e.meta.end_frame_no

\* The payload of page p in segment e.
PayloadOf(e, p) ==
    LET i == CHOOSE j \in 1..Len(e.file.frames) : e.file.frames[j].page_no = p
    IN  e.file.frames[i].data

\* C5: when the stored segments together cover the pages 1..N of the database (N
\* the size_after of the newest segment), restore_latest returns Ok and the file
\* holds, at offset (p - 1) * 4096 for every p in 1..N, the payload of page p in the
\* newest stored segment that contains p.
C5_RestoreCorrect ==
    (rst.pc = "done" /\ Restorable # {}) =>
        LET N       == Newest(Restorable).file.header.size_after
            covered == UNION {PagesOf(e) : e \in Restorable}
        IN  (1..N) \subseteq covered =>
                /\ rst.result = Ok
                /\ \A p \in 1..N :
                       /\ (p - 1) * 4096 \in DOMAIN rst.file
                       /\ rst.file[(p - 1) * 4096] =
                              PayloadOf(Newest({e \in Restorable : p \in PagesOf(e)}), p)

\* C11: fetch_segment returns FrameNotFound(f) exactly when find_segment yields no
\* segment or one that does not include f, and then it neither opens the
\* destination nor starts a GET; an index it returns is that of a stored segment
\* that includes f.
C11_FrameNotFound ==
    [][/\ (ret' # ret /\ ret'.op = "fetch_segment" /\ ret'.result.tag = "Ok") =>
              \E m \in {S1, S2} :
                  /\ SegmentKeyFrom(m) = fetch.segment_key
                  /\ IndexStored(m)
                  /\ m.start_frame_no <= ret'.frame_no
                  /\ ret'.frame_no <= m.end_frame_no
                  /\ ret'.result.index = IF fetch.index = "pending" THEN StoredIndex(m)
                                         ELSE fetch.index
       /\ (fetch.pc = "join" /\ fetch'.pc = "join" /\ fetch'.index # fetch.index) =>
              \E m \in {S1, S2} : /\ SegmentKeyFrom(m) = fetch.segment_key
                                  /\ IndexStored(m)
                                  /\ fetch'.index = StoredIndex(m)
       /\ (fetch.pc = "idle" /\ fetch'.pc = "join") =>
                 LET r == find_segment(bucket, ClusterId, fetch'.namespace, fetch'.frame_no)
                 IN  /\ r.tag = "Ok"
                     /\ r.key = fetch'.segment_key
                     /\ Includes(r.key, fetch'.frame_no)
       /\ (/\ ret' # ret
           /\ ret'.op = "fetch_segment"
           /\ ret'.result.tag = "Err"
           /\ ret'.result.err = "FrameNotFound") =>
                 LET r == find_segment(bucket, ClusterId, ret'.namespace, ret'.frame_no)
                 IN  /\ r.tag = "Err" \/ ~Includes(r.key, ret'.frame_no)
                     /\ ret'.result.msg = ret'.frame_no
                     /\ dest' = dest
                     /\ fetch.pc = "idle" /\ fetch' = fetch]_vars

\* find_segment(65) yields S1 = [0, 64], which does not include 65: FrameNotFound,
\* and the destination path was never created.
C11_Witness ==
    /\ IndexStored(S1)
    /\ ret.op = "fetch_segment" /\ ret.frame_no = 65
    /\ ret.result = Err("FrameNotFound", 65)
    /\ find_segment(bucket, ClusterId, S1.namespace, 65) = OkKey(S1)
    /\ dest = NoFile

\* The stored segments of the namespace of stream st.
ListedMetas(st) == {m \in Metas : m.namespace = st.namespace /\ IndexStored(m)}

\* The keys below the indexes folder of stream st that the stream has passed.
Passed(st) ==
    {k \in DOMAIN bucket :
        /\ k.path = <<"v2", "clusters", ClusterId, "namespaces", st.namespace, "indexes">>
        /\ st.pc = "listing" => (k = st.continuation_token
                                    \/ KeyLess(k, st.continuation_token))}

\* C12: however the listing is split into pages, the stream yields one SegmentInfo
\* for each stored segment the pages so far hold, each once, and nothing for the
\* other keys; a truncated page moves the continuation token strictly forward, and
\* the first page that is not truncated ends the stream.
C12_ListPagination ==
    /\ [](\A l \in Listers : lst[l].pc \in {"listing", "done"} =>
             LET st   == lst[l]
                 seen == {m \in ListedMetas(st) : IndexKeyOf(m) \in Passed(st)}
             IN  /\ Len(st.items) = Cardinality(seen)
                 /\ \A m \in seen : \E i \in 1..Len(st.items) :
                        st.items[i] = [key  |-> SegmentKeyFrom(m),
                                       size |-> Len(bucket[IndexKeyOf(m)])]
                 /\ st.pc = "done" => seen = ListedMetas(st))
    /\ [][\A l \in Listers :
              (lst[l].pc = "listing" /\ lst'[l] # lst[l] /\ lst'[l].pc # "err") =>
                  LET left == {k \in DOMAIN bucket :
                                  /\ k.path = <<"v2", "clusters", ClusterId, "namespaces",
                                                lst[l].namespace, "indexes">>
                                  /\ KeyLess(lst'[l].continuation_token, k)}
                  IN  /\ lst'[l].pages = lst[l].pages + 1
                      /\ lst'[l].pc = "listing" =>
                             /\ left # {}
                             /\ KeyLess(lst[l].continuation_token,
                                        lst'[l].continuation_token)
                      /\ lst'[l].pc = "done" <=>
                             (left = {} \/ lst'[l].continuation_token
                                               = lst[l].continuation_token)]_vars

\* Two segments and two foreign objects were listed in three pages.
C12_Witness ==
    /\ lst[1].pc = "done"
    /\ lst[1].pages = 3
    /\ Len(lst[1].items) = 2
    /\ Cardinality(Passed(lst[1])) = 4

\* C20: two streams over the same objects that differ only in until yield the same
\* items.
C20_UntilIgnored ==
    \A l1, l2 \in Listers :
        (lst[l1].pc = "done" /\ lst[l2].pc = "done"
            /\ lst[l1].namespace = lst[l2].namespace)
            => lst[l1].items = lst[l2].items

C20_Witness ==
    /\ lst[1].pc = "done" /\ lst[2].pc = "done"
    /\ lst[1].until = 0 /\ lst[2].until = 128
    /\ Len(lst[1].items) = 2

\* The bodies made so far for the upload.
Bodies == IF up.pc = "streaming" THEN up.bodies ELSE <<>>

RECURSIVE SumLen(_, _)
\* Bytes in the first n frames.
SumLen(frames, n) == IF n = 0 THEN 0 ELSE SumLen(frames, n - 1) + frames[n].len

\* A body that reached the end of the stream without a read error.
Completed(b) == b.state = "Done" /\ b.errors = 0

\* C13: the body of every attempt starts in Init at offset 0 with nothing emitted,
\* whatever the earlier attempts did; making or polling one body changes no other;
\* an attempt that runs to completion delivers the file from byte 0 to its end.
C13_RetryFresh ==
    /\ [](\A a \in 1..Len(Bodies) :
             LET b == Bodies[a]
             IN  /\ b.frames # <<>> => b.frames[1].offset = 0
                 /\ Completed(b) => SumLen(b.frames, Len(b.frames)) = up.file_len)
    /\ [][up.pc = "streaming" =>
             /\ Len(up'.bodies) > Len(up.bodies) =>
                    /\ Len(up'.bodies) = Len(up.bodies) + 1
                    /\ up'.bodies[Len(up'.bodies)].state = "Init"
                    /\ up'.bodies[Len(up'.bodies)].current_offset = 0
                    /\ up'.bodies[Len(up'.bodies)].frames = <<>>
                    /\ \A a \in 1..Len(up.bodies) : up'.bodies[a] = up.bodies[a]
             /\ \A a, o \in 1..Len(up.bodies) :
                    (a # o /\ up'.bodies[a] # up.bodies[a])
                        => up'.bodies[o] = up.bodies[o]]_vars

\* The first attempt stopped after one chunk; the retry delivered all 8092 bytes.
C13_Witness ==
    /\ Len(Bodies) = 2
    /\ up.file_len = 8092
    /\ Bodies[1].state = "Init" /\ Bodies[1].current_offset = 4096
    /\ Completed(Bodies[2])
    /\ Bodies[2].frames = <<[offset |-> 0, len |-> 4096], [offset |-> 4096, len |-> 3996]>>

\* C16: the data frames of a body are non-empty and of at most 4096 bytes, each read
\* at the sum of the lengths before it; a body polled to the end emitted the bytes
\* [0, L) of the file and issued one read more than it emitted frames.
C16_FramesCoverFile ==
    \A a \in 1..Len(Bodies) :
        LET b == Bodies[a]
        IN  /\ \A i \in 1..Len(b.frames) :
                   /\ b.frames[i].len >= 1 /\ b.frames[i].len <= 4096
                   /\ b.frames[i].offset = SumLen(b.frames, i - 1)
                   /\ i > 1 => b.frames[i].offset > b.frames[i - 1].offset
            /\ b.reads <= Len(b.frames) + 1
            /\ Completed(b) =>
                   /\ SumLen(b.frames, Len(b.frames)) = up.file_len
                   /\ b.reads = Len(b.frames) + 1

\* A file of 8092 bytes was streamed as a short frame and two more, in four reads.
C16_Witness ==
    /\ Len(Bodies) = 1
    /\ up.file_len = 8092
    /\ Completed(Bodies[1])
    /\ Len(Bodies[1].frames) = 3
    /\ Bodies[1].frames[1].len < 4096
    /\ Bodies[1].reads = 4

\* C17: a body that is Done stays as it is: polls return end-of-stream, read
\* nothing and emit nothing; a read error is one error frame and leads to Done, and
\* so does a read of no bytes.
C17_DoneAbsorbing ==
    /\ [](\A a \in 1..Len(Bodies) :
             /\ Bodies[a].errors <= 1
             /\ Bodies[a].errors = 1 => Bodies[a].state = "Done")
    /\ [][up.pc = "streaming" =>
             \A a \in 1..Len(up.bodies) :
                 LET b == up.bodies[a]
                     c == up'.bodies[a]
                 IN  /\ b.state = "Done" =>
                            /\ c = [b EXCEPT !.polled = c.polled]
                            /\ c.polled \in {b.polled, "eos"}
                     /\ c.errors # b.errors =>
                            /\ c.errors = b.errors + 1
                            /\ c.state = "Done" /\ c.polled = "err"
                            /\ c.frames = b.frames
                     /\ (b.state # "Done" /\ c.state = "Done" /\ c.errors = b.errors) =>
                            /\ b.current_offset >= up.file_len
                            /\ c.polled = "eos" /\ c.frames = b.frames]_vars

\* A read failed after one data frame, and the body was polled again.
C17_Witness ==
    /\ Len(Bodies) = 1
    /\ Bodies[1].state = "Done"
    /\ Bodies[1].errors = 1
    /\ Len(Bodies[1].frames) = 1
    /\ Bodies[1].polled = "eos"

\* C14: restore_latest returns Ok only with |seen| = db_size (or with nothing to
\* restore); when the lookup of the next older segment finds none while
\* |seen| # db_size, the call ends in the panic of todo!, and the pages written so
\* far stay in the destination.
C14_IncompleteRestoreAborts ==
    [][/\ (rst.pc = "idle" /\ rst'.pc = "done" /\ rst'.result = Ok) =>
              /\ {e \in Restorable : e.meta.namespace = rst'.namespace} = {}
              /\ rst'.writes = <<>>
       /\ (rst.pc = "frames" /\ rst'.pc = "done") =>
              /\ rst'.result = Ok => Cardinality(rst'.seen) = rst.db_size
              /\ (/\ Cardinality(rst'.seen) # rst.db_size
                  /\ rst.header.start_frame_no > 0
                  /\ find_segment(bucket, ClusterId, rst.namespace,
                                  rst.header.start_frame_no - 1).tag = "Err") =>
                     /\ rst'.result.tag = "Err" /\ rst'.result.err = "Panic"
                     /\ rst'.writes # <<>>
                     /\ \A o \in DOMAIN rst.file :
                            o \in DOMAIN rst'.file /\ rst'.file[o] = rst.file[o]
                     /\ DOMAIN rst'.file = {(p - 1) * 4096 : p \in rst'.seen}]_vars

\* Only the segment of frames [3, 4] is stored: page 3 of 3 is written, no older
\* segment is found, and the call panics with the page in place.
C14_Witness ==
    /\ rst.pc = "done"
    /\ rst.result = Err("Panic", "not yet implemented: there should be a segment!")
    /\ rst.seen = {3}
    /\ DOMAIN rst.file = {8192}

RECURSIVE FirstFrames(_, _)
\* The frames of a reader that carry a page not in seen for the first time.
FirstFrames(reader, seen) ==
    IF reader = <<>> THEN <<>>
    ELSE IF Head(reader).page_no \in seen THEN FirstFrames(Tail(reader), seen)
    ELSE <<Head(reader)>> \o FirstFrames(Tail(reader), seen \cup {Head(reader).page_no})

\* C15: no page is written twice during a restore; a segment's turn writes, in
\* order, the first frame of each page not seen before at (page_no - 1) * 4096 and
\* nothing for any other frame, and leaves what was written before as it is.
C15_PageWrittenOnce ==
    /\ [](rst.pc \in {"frames", "done"} =>
             /\ \A i, j \in 1..Len(rst.writes) : i # j => rst.writes[i] # rst.writes[j]
             /\ rst.seen = {rst.writes[i] : i \in 1..Len(rst.writes)}
             /\ DOMAIN rst.file = {(p - 1) * 4096 : p \in rst.seen})
    /\ [][rst.pc = "frames" =>
             LET first == FirstFrames(rst.reader, rst.seen)
             IN  /\ rst'.writes = rst.writes
                        \o [i \in 1..Len(first) |-> first[i].page_no]
                 /\ \A i \in 1..Len(first) :
                        rst'.file[(first[i].page_no - 1) * 4096] = first[i].data
                 /\ \A o \in DOMAIN rst.file : rst'.file[o] = rst.file[o]]_vars

\* The newest segment carries page 2 twice: its first frame is the one in the
\* file, and pages 3 and 1 come from the two segments before it.
C15_Witness ==
    /\ rst.pc = "done" /\ rst.result = Ok
    /\ rst.writes = <<2, 3, 1>>
    /\ rst.file[4096] = <<"page", 2, "of segment", 6, "frame", 1>>

\* The stored data file the download in progress reads.
Downloaded ==
    bucket[[path |-> <<"v2", "clusters", ClusterId, "namespaces", dl.namespace, "segments">>,
            name |-> SegmentKeyDisplay(dl.key)]]

\* The while loop of the download can no longer end: the buffer is shorter than
\* the header and no turn of the loop adds to it.
LoopsForever ==
    /\ dl.pc = "fill"
    /\ \A n \in 0..Len(dl.stream) :
           (n = 0 => dl.stream = <<>>) => fill_buf(dl.buf, dl.stream, n).buf = dl.buf

\* C18: fetch_segment_data_to_file of a stored data file D into an empty file, when
\* no transfer fails, returns the header in the first bytes of D and leaves D in
\* the file; the call does return.
C18_DataRoundTrip ==
    (dl.pc # "idle" /\ dl.result.tag # "Err") =>
        /\ ~LoopsForever
        /\ dl.pc = "done" =>
               /\ dl.result = [tag |-> "Ok", header |-> SubSeq(Downloaded, 1, 2)]
               /\ dl.file = Downloaded

\* C19: the data download and the index fetch of fetch_segment end in either
\* order; the map is returned only when the whole data file is in the destination
\* and the index was decoded; when either fails the error is returned, and the
\* destination keeps what was written to it.
C19_JoinBothOrFail ==
    [][(fetch.pc = "join" /\ ret' # ret /\ ret'.op = "fetch_segment") =>
           /\ ret'.result.tag = "Ok" =>
                  /\ dest' \in DataFiles
                  /\ fetch.data = "done" \/ fetch.index # "pending"
                  /\ \E i \in Indexes : ret'.result.index = i
           /\ ret'.result.tag = "Err" =>
                  /\ ret'.result.err # "FrameNotFound"
                  /\ dest' # NoFile
                  /\ IsPrefix(dest, dest')
                  /\ fetch'.pc = "idle"]_vars

\* The data transfer broke after one byte: the error is returned and the byte stays
\* in the destination file.
C19_Witness ==
    /\ ret.op = "fetch_segment"
    /\ ret.result = Err("Unhandled", "error sending s3 GET request")
    /\ fetch.pc = "idle"
    /\ dest = <<123>>

\* No index object is stored for namespace.
NothingStored(namespace) ==
    \A k \in DOMAIN bucket :
        k.path # <<"v2", "clusters", ClusterId, "namespaces", namespace, "indexes">>

\* C21: restore_latest on a namespace with no stored segment returns Ok at once: it
\* sends no GET and writes nothing to the destination file; and an Ok without a
\* GET is returned for such a namespace only.
C21_NothingToRestore ==
    [][(rst.pc = "idle" /\ rst'.pc # "idle") =>
           /\ NothingStored(rst'.namespace) =>
                  /\ rst'.pc = "done" /\ rst'.result = Ok
                  /\ rst'.gets = {} /\ rst'.writes = <<>>
                  /\ rst'.file = <<>> /\ rst'.seen = {}
                  /\ bucket' = bucket
           /\ (rst'.pc = "done" /\ rst'.gets = {}) => NothingStored(rst'.namespace)]_vars

\* Segments of foobarbaz are stored; the restore of the namespace other returned Ok
\* without a GET.
C21_Witness ==
    /\ rst.pc = "done" /\ rst.result = Ok /\ rst.namespace = "other"
    /\ rst.gets = {} /\ rst.writes = <<>>
    /\ ~NothingStored("foobarbaz")

\* C22: when restore_latest returns Ok on a namespace that has segments, the pages
\* it wrote are exactly 1..db_size, db_size the size_after of the newest stored
\* segment: the file holds a page at each of their offsets and at no other.
C22_PagesExactlyDbSize ==
    (rst.pc = "done" /\ rst.result = Ok /\ ~NothingStored(rst.namespace)) =>
        LET db_size == Newest({e \in Restorable : e.meta.namespace = rst.namespace})
                           .file.header.size_after
        IN  /\ rst.seen = 1..db_size
            /\ {rst.writes[i] : i \in 1..Len(rst.writes)} = 1..db_size
            /\ DOMAIN rst.file = {(p - 1) * 4096 : p \in 1..db_size}

\* C23: the walk of restore_latest descends: a segment opened after the first ends
\* strictly below the start_frame_no of the segment before it and was not opened
\* before, also after a segment that starts at frame 0; and the walk ends in
\* completion or in the failure of a missing segment, not in an arithmetic
\* overflow.
C23_WalkDescends ==
    [][rst.pc = "frames" =>
           /\ rst'.pc = "frames" =>
                  /\ rst'.key.end_frame_no < rst.header.start_frame_no
                  /\ s3_segment_data_key(FolderKey(ClusterId, rst.namespace), rst'.key)
                         \notin rst.gets
           /\ rst'.pc = "done" =>
                  rst'.result # Err("Panic", "attempt to subtract with overflow")]_vars

\* C24: fetch_segment_data_to_file returns for every data object and every
\* chunking of its stream: while the call waits for a header's worth of buffered
\* bytes, every turn of its loop either ends the wait or takes bytes from the
\* stream, so the wait is over after at most as many turns as the object has
\* bytes.
C24_FetchDataReturns ==
    dl.pc = "fill" =>
        \A n \in 0..Len(dl.stream) :
            ((n = 0 => dl.stream = <<>>) /\ n <= BufCapacity) =>
                LET r == fill_buf(dl.buf, dl.stream, n)
                IN  Len(r.buf) >= HeaderSize \/ Len(r.stream) < Len(dl.stream)
====
